---- MODULE Spec2Model ----
(***************************************************************************)
(* A model of the fuzzy song index of dj-automix                           *)
(* (src/src/index/fuzzy_index.py).                                         *)
(*                                                                         *)
(* Strings are sequences of one-character strings, so that the regular     *)
(* expressions and the normalization work on characters as the code does.  *)
(* Positions in strings and lists are 1-based.                             *)
(* Floating-point scores are fixed-point integers:                         *)
(*   a WRatio score      is in units of 0.001   (0 .. 100000),             *)
(*   a weighted score    is in units of 0.00001 (0 .. 10000000),           *)
(*   a threshold         is in units of 0.00001,                           *)
(*   a returned score    is in units of 0.01    (round(s, 2)).             *)
(***************************************************************************)
EXTENDS Integers, Sequences, FiniteSets, TLC

\* Body applied to the value of e, with e evaluated once: the assignment
\* `x = e` followed by the statements that use x
With(e, Body(_)) ==
    CHOOSE v \in { Body(x) : x \in {e} } : TRUE

\* ------------------------------------------------------------------------
\* Characters
\* ------------------------------------------------------------------------
LowerCase ==
    <<"a","b","c","d","e","f","g","h","i","j","k","l","m",
      "n","o","p","q","r","s","t","u","v","w","x","y","z">>

UpperCase ==
    <<"A","B","C","D","E","F","G","H","I","J","K","L","M",
      "N","O","P","Q","R","S","T","U","V","W","X","Y","Z">>

Digits ==
    <<"0","1","2","3","4","5","6","7","8","9">>

Range(f) ==
    { f[i] : i \in DOMAIN f }

\* \d
DigitChars ==
    Range(Digits)

\* \w
WordChars ==
    Range(LowerCase) \cup Range(UpperCase) \cup DigitChars \cup {"_"}

\* \s
SpaceChars ==
    {" ", "\t", "\n", "\r"}

\* what norm keeps: \w, \s and the symbols + # / . -
KeptChars ==
    WordChars \cup SpaceChars \cup {"+", "#", "/", ".", "-"}

\* str.lower() on one character
LowerChar(c) ==
    IF \E i \in 1..26 : UpperCase[i] = c
    THEN LowerCase[CHOOSE i \in 1..26 : UpperCase[i] = c]
    ELSE c

\* ------------------------------------------------------------------------
\* String helpers (Python str methods and slices)
\* ------------------------------------------------------------------------
Max(a, b) ==
    IF a >= b THEN a ELSE b

Min(a, b) ==
    IF a <= b THEN a ELSE b

\* the characters at positions a .. b-1
Slice(s, a, b) ==
    IF b <= a THEN << >> ELSE SubSeq(s, a, b - 1)

\* a search that forgets to cut its list at the limit
Prefix_all(s, n) ==
    s

\* s[:n] of Python
Prefix(s, n) ==
    IF n >= 0 THEN SubSeq(s, 1, Min(n, Len(s)))
    ELSE SubSeq(s, 1, Max(Len(s) + n, 0))

\* the first position >= p whose character is not in C (Len(s)+1 if none):
\* where a greedy C* that starts at p ends
SkipWhile(s, p, C) ==
    CHOOSE j \in p..(Len(s) + 1) :
        /\ \A k \in p..(j - 1) : s[k] \in C
        /\ (j = Len(s) + 1 \/ s[j] \notin C)

\* the first position >= p whose character is in C (Len(s)+1 if none):
\* where a greedy [^C]* that starts at p ends
SkipUntil(s, p, C) ==
    CHOOSE j \in p..(Len(s) + 1) :
        /\ \A k \in p..(j - 1) : s[k] \notin C
        /\ (j = Len(s) + 1 \/ s[j] \in C)

\* the last position whose character is not whitespace (0 if none)
LastNonSpace(s) ==
    CHOOSE j \in 0..Len(s) :
        /\ \A k \in (j + 1)..Len(s) : s[k] \in SpaceChars
        /\ (j = 0 \/ s[j] \notin SpaceChars)

\* str.strip()
Strip(s0) ==
    With(s0, LAMBDA s :
        Slice(s, SkipWhile(s, 1, SpaceChars), LastNonSpace(s) + 1))

\* sub occurs in s at position p
OccursAt(s, p, sub) ==
    /\ p >= 1
    /\ p + Len(sub) - 1 <= Len(s)
    /\ \A k \in 1..Len(sub) : s[p + k - 1] = sub[k]

\* `sub in s`
Contains(s, sub) ==
    \E p \in 1..(Len(s) - Len(sub) + 1) : OccursAt(s, p, sub)

\* str.replace(old, new): every non-overlapping occurrence, left to right
RECURSIVE ReplaceFrom(_, _, _, _)
ReplaceFrom(s, p, old, new) ==
    IF p > Len(s) THEN << >>
    ELSE IF OccursAt(s, p, old)
         THEN new \o ReplaceFrom(s, p + Len(old), old, new)
         ELSE <<s[p]>> \o ReplaceFrom(s, p + 1, old, new)

Replace(s0, old, new) ==
    With(s0, LAMBDA s : ReplaceFrom(s, 1, old, new))

\* ------------------------------------------------------------------------
\* Normalization
\* ------------------------------------------------------------------------
\* lower(), then re.sub(r"[^\w\s+#/.-]", " ", s), on one character; a
\* whitespace character is given as " ", which is what the next step makes
\* of it
NormChar(c) ==
    IF LowerChar(c) \in KeptChars \ SpaceChars THEN LowerChar(c) ELSE " "

\* re.sub(r"\s+", " ", s): one space for every run of whitespace
RECURSIVE Squeeze(_, _)
Squeeze(s, p) ==
    IF p > Len(s) THEN << >>
    ELSE IF NormChar(s[p]) = " " /\ p > 1 /\ NormChar(s[p - 1]) = " "
         THEN Squeeze(s, p + 1)
         ELSE <<NormChar(s[p])>> \o Squeeze(s, p + 1)

norm(s0) ==
    With(s0, LAMBDA s : Strip(Squeeze(s, 1)))

\* the strings of the code, as character sequences
MAJOR == <<" ","m","a","j","o","r">>
MINOR == <<" ","m","i","n","o","r">>
LETTER_M == <<"m">>
SEP == <<" ","|"," ">>
QUOTE == "'"

\* " major" replaced by a space instead of being removed
compact_key_space(s) ==
    Replace(Replace(s, MAJOR, <<" ">>), MINOR, LETTER_M)

\* .replace(" major","").replace(" minor","m")   (lines 47 and 121)
compact_key(s) ==
    Replace(Replace(s, MAJOR, << >>), MINOR, LETTER_M)

\* the key normalization of Song.normalized: norm, then the two replacements
normalize_key(x) ==
    compact_key(norm(x))

\* ------------------------------------------------------------------------
\* Values of the untyped field bpm: an int or a str
\* ------------------------------------------------------------------------
IntVal(n) ==
    [k |-> "int", n |-> n, s |-> << >>]

StrVal(s) ==
    [k |-> "str", n |-> 0, s |-> s]

DigitVal(c) ==
    (CHOOSE i \in 1..10 : Digits[i] = c) - 1

\* the number written by the first k of the digits ds
RECURSIVE DigitsValueTo(_, _)
DigitsValueTo(ds, k) ==
    IF k = 0 THEN 0
    ELSE DigitsValueTo(ds, k - 1) * 10 + DigitVal(ds[k])

DigitsValue(ds) ==
    With(ds, LAMBDA d : DigitsValueTo(d, Len(d)))

RECURSIVE NatToStr(_)
NatToStr(n) ==
    IF n < 10 THEN <<Digits[n + 1]>>
    ELSE NatToStr(n \div 10) \o <<Digits[(n % 10) + 1]>>

\* str(n) for an int
IntToStr(n) ==
    IF n < 0 THEN <<"-">> \o NatToStr(0 - n) ELSE NatToStr(n)

\* str(x)
PyStr(v) ==
    IF v.k = "int" THEN IntToStr(v.n) ELSE v.s

\* int(s) for a str: surrounding whitespace, an optional sign, digits with
\* single underscores between them; ok = FALSE stands for the ValueError
ParseInt(s0) ==
    With(Strip(s0), LAMBDA s :
        LET signed == Len(s) > 0 /\ s[1] \in {"+", "-"}
            body == IF signed THEN Tail(s) ELSE s
            wellformed ==
                /\ Len(body) > 0
                /\ \A i \in 1..Len(body) : body[i] \in DigitChars \cup {"_"}
                /\ body[1] # "_"
                /\ body[Len(body)] # "_"
                /\ \A i \in 1..(Len(body) - 1) :
                      ~ (body[i] = "_" /\ body[i + 1] = "_")
            mag == DigitsValue(SelectSeq(body, LAMBDA c : c # "_"))
        IN  IF wellformed
            THEN [ok |-> TRUE, n |-> IF signed /\ s[1] = "-" THEN 0 - mag ELSE mag]
            ELSE [ok |-> FALSE, n |-> 0])

\* to_int: int(str(x).strip()); ok = FALSE stands for None
to_int(x) ==
    ParseInt(Strip(PyStr(x)))

\* ------------------------------------------------------------------------
\* Song and SongIndex
\* ------------------------------------------------------------------------
Song(title, artist, album, key, bpm, path) ==
    [title |-> title, artist |-> artist, album |-> album,
     key |-> key, bpm |-> bpm, path |-> path]

\* str(to_int(self.bpm) or ""): None and 0 are both falsy
bpm_n_of(bpm) ==
    With(to_int(bpm), LAMBDA t :
        IF t.ok /\ t.n # 0 THEN IntToStr(t.n) ELSE << >>)

normalized(self) ==
    [title_n  |-> norm(self.title),
     artist_n |-> norm(self.artist),
     album_n  |-> norm(self.album),
     key_n    |-> compact_key(norm(self.key)),
     bpm_n    |-> bpm_n_of(self.bpm),
     path_n   |-> norm(self.path)]

\* the coarse text without the album
search_text_no_album(n) ==
    n.title_n \o SEP \o n.artist_n

\* " | ".join([n["title_n"], n["artist_n"], n["album_n"]])
search_text(n) ==
    n.title_n \o SEP \o n.artist_n \o SEP \o n.album_n

\* SongIndex.__init__
SongIndex(items) ==
    With([ i \in 1..Len(items) |-> normalized(items[i]) ], LAMBDA norms :
        [items        |-> items,
         norms        |-> norms,
         search_texts |-> [ i \in 1..Len(norms) |-> search_text(norms[i]) ]])

\* one record of the catalog: r.get("bpm") or r.get("BPM") or "" turns the
\* falsy values (0, "") into ""; the text fields are strs already
load_row(r) ==
    Song(r.title, r.artist, r.album, r.key,
         IF r.bpm.k = "int" /\ r.bpm.n = 0 THEN StrVal(<< >>) ELSE r.bpm,
         r.path)

\* load_songs: the records of the catalog file, in the file's order
load_songs(arr) ==
    [ i \in 1..Len(arr) |-> load_row(arr[i]) ]

\* ------------------------------------------------------------------------
\* The regular expressions of parse_query.  A match record gives ok and the
\* position after the match (end).
\* ------------------------------------------------------------------------
F_TITLE == <<"t","i","t","l","e">>
F_ARTIST == <<"a","r","t","i","s","t">>
F_ALBUM == <<"a","l","b","u","m">>
F_KEY == <<"k","e","y">>
F_BPM == <<"b","p","m">>
DOTDOT == <<".",".">>

\* the alternation (title|artist|album|key|bpm), in its order, with its names
FieldWords ==
    <<F_TITLE, F_ARTIST, F_ALBUM, F_KEY, F_BPM>>

FieldNames ==
    <<"title", "artist", "album", "key", "bpm">>

IsWordAt(s, p) ==
    p >= 1 /\ p <= Len(s) /\ s[p] \in WordChars

\* \b at position p: exactly one side is a word character
WordBoundary(s, p) ==
    IsWordAt(s, p - 1) # IsWordAt(s, p)

\* a literal at p under re.I
LitAtI(s, p, lit) ==
    /\ p + Len(lit) - 1 <= Len(s)
    /\ \A k \in 1..Len(lit) : LowerChar(s[p + k - 1]) = lit[k]

NoMatch ==
    [ok |-> FALSE, end |-> 0, lo |-> 0, hi |-> 0, f |-> "", v |-> << >>]

\* \bbpm\s*:\s*(\d+)\s*\.\.\s*(\d+) matched at p.  The classes that follow
\* one another are disjoint, so the greedy match is the only match.
RangeMatch(q, p) ==
    IF ~ (WordBoundary(q, p) /\ LitAtI(q, p, F_BPM)) THEN NoMatch
    ELSE
      With(SkipWhile(q, p + 3, SpaceChars), LAMBDA c :
        IF ~ (c <= Len(q) /\ q[c] = ":") THEN NoMatch
        ELSE
          With(SkipWhile(q, c + 1, SpaceChars), LAMBDA a1 :
          With(SkipWhile(q, a1, DigitChars), LAMBDA b1 :
          With(SkipWhile(q, b1, SpaceChars), LAMBDA d :
            IF ~ (b1 > a1 /\ OccursAt(q, d, DOTDOT)) THEN NoMatch
            ELSE
              With(SkipWhile(q, d + 2, SpaceChars), LAMBDA a2 :
              With(SkipWhile(q, a2, DigitChars), LAMBDA b2 :
                IF b2 > a2
                THEN [NoMatch EXCEPT !.ok = TRUE, !.end = b2,
                                     !.lo = DigitsValue(Slice(q, a1, b1)),
                                     !.hi = DigitsValue(Slice(q, a2, b2))]
                ELSE NoMatch))))))

\* \b(title|artist|album|key|bpm)\s*:\s*([^\s][^']*|'[^']*') matched at p
PairMatch(q, p) ==
    IF ~ (WordBoundary(q, p) /\ \E i \in 1..5 : LitAtI(q, p, FieldWords[i]))
    THEN NoMatch
    ELSE
      With(CHOOSE j \in 1..5 : LitAtI(q, p, FieldWords[j]), LAMBDA i :
      With(SkipWhile(q, p + Len(FieldWords[i]), SpaceChars), LAMBDA c :
        IF ~ (c <= Len(q) /\ q[c] = ":") THEN NoMatch
        ELSE
          With(SkipWhile(q, c + 1, SpaceChars), LAMBDA a :
            IF a > Len(q) THEN NoMatch
            ELSE
              \* the end of [^']* after the first character of the value
              With(SkipUntil(q, a + 1, {QUOTE}), LAMBDA e :
                IF q[a] \notin SpaceChars
                THEN \* first alternative [^\s][^']*: one character that is
                     \* not whitespace (a quote too), then everything up to
                     \* the next quote or the end
                     [NoMatch EXCEPT !.ok = TRUE, !.end = e,
                                     !.f = FieldNames[i], !.v = Slice(q, a, e)]
                ELSE IF q[a] = QUOTE /\ e <= Len(q)
                THEN \* second alternative '[^']*'
                     [NoMatch EXCEPT !.ok = TRUE, !.end = e + 1,
                                     !.f = FieldNames[i], !.v = Slice(q, a, e + 1)]
                ELSE NoMatch))))

\* '([^']+)' matched at p; v is group 1
PhraseMatch(q, p) ==
    IF ~ (p <= Len(q) /\ q[p] = QUOTE) THEN NoMatch
    ELSE
      With(SkipUntil(q, p + 1, {QUOTE}), LAMBDA e :
        IF e > p + 1 /\ e <= Len(q)
        THEN [NoMatch EXCEPT !.ok = TRUE, !.end = e + 1, !.v = Slice(q, p + 1, e)]
        ELSE NoMatch)

\* re.search: the leftmost match, looked for from position p on
RECURSIVE SearchRange(_, _)
SearchRange(q, p) ==
    IF p > Len(q) THEN NoMatch
    ELSE With(RangeMatch(q, p), LAMBDA m :
            IF m.ok THEN m ELSE SearchRange(q, p + 1))

RECURSIVE SearchPhrase(_, _)
SearchPhrase(q, p) ==
    IF p > Len(q) THEN NoMatch
    ELSE With(PhraseMatch(q, p), LAMBDA m :
            IF m.ok THEN m ELSE SearchPhrase(q, p + 1))

\* re.sub(pattern, "", q): the non-overlapping matches, left to right, removed
RECURSIVE SubRange(_, _)
SubRange(q, p) ==
    IF p > Len(q) THEN << >>
    ELSE With(RangeMatch(q, p), LAMBDA m :
            IF m.ok THEN SubRange(q, m.end)
            ELSE <<q[p]>> \o SubRange(q, p + 1))

RECURSIVE SubPairs(_, _)
SubPairs(q, p) ==
    IF p > Len(q) THEN << >>
    ELSE With(PairMatch(q, p), LAMBDA m :
            IF m.ok THEN SubPairs(q, m.end)
            ELSE <<q[p]>> \o SubPairs(q, p + 1))

RECURSIVE SubPhrase(_, _)
SubPhrase(q, p) ==
    IF p > Len(q) THEN << >>
    ELSE With(PhraseMatch(q, p), LAMBDA m :
            IF m.ok THEN SubPhrase(q, m.end)
            ELSE <<q[p]>> \o SubPhrase(q, p + 1))

\* re.findall: the (field, value) groups of the non-overlapping matches
RECURSIVE FindPairs(_, _)
FindPairs(q, p) ==
    IF p > Len(q) THEN << >>
    ELSE With(PairMatch(q, p), LAMBDA m :
            IF m.ok THEN <<m>> \o FindPairs(q, m.end)
            ELSE FindPairs(q, p + 1))

\* ------------------------------------------------------------------------
\* parse_query
\* ------------------------------------------------------------------------
Unset ==
    [set |-> FALSE, v |-> << >>]

\* the body of the loop over pairs: strip, drop a pair of enclosing quotes,
\* normalize unless the field is bpm
PairValue(f, v0) ==
    With(Strip(v0), LAMBDA v1 :
    With(IF Len(v1) > 0 /\ v1[1] = QUOTE /\ v1[Len(v1)] = QUOTE
         THEN Slice(v1, 2, Len(v1))
         ELSE v1, LAMBDA v2 :
        IF f # "bpm" THEN norm(v2) ELSE v2))

\* filters[f] after the loop: the value of the last pair for field f
FieldFilter(pairs, f) ==
    With({ i \in 1..Len(pairs) : pairs[i].f = f }, LAMBDA at :
        IF at = {} THEN Unset
        ELSE [set |-> TRUE,
              v |-> PairValue(f, pairs[CHOOSE i \in at : \A j \in at : j <= i].v)])

parse_query(query) ==
    With(SearchRange(query, 1), LAMBDA m :
    With(IF m.ok THEN SubRange(query, 1) ELSE query, LAMBDA q1 :
    With(FindPairs(q1, 1), LAMBDA pairs :
    With(IF Len(pairs) > 0 THEN SubPairs(q1, 1) ELSE q1, LAMBDA q2 :
    With(SearchPhrase(q2, 1), LAMBDA pm :
    With(IF pm.ok THEN SubPhrase(q2, 1) ELSE q2, LAMBDA q3 :
        [q_free  |-> norm(q3),
         phrase  |-> IF pm.ok THEN [set |-> TRUE, v |-> norm(pm.v)] ELSE Unset,
         filters |-> [title     |-> FieldFilter(pairs, "title"),
                      artist    |-> FieldFilter(pairs, "artist"),
                      album     |-> FieldFilter(pairs, "album"),
                      key       |-> FieldFilter(pairs, "key"),
                      bpm       |-> FieldFilter(pairs, "bpm"),
                      bpm_range |-> [set |-> m.ok, lo |-> m.lo, hi |-> m.hi]]]))))))

\* ------------------------------------------------------------------------
\* Scoring
\* ------------------------------------------------------------------------
\* one row of the longest-common-subsequence table: row i from row i-1
RECURSIVE LcsRow(_, _, _, _, _, _)
LcsRow(a, b, i, prev, j, acc) ==
    IF j > Len(b) THEN acc
    ELSE With(Append(acc,
                IF a[i] = b[j]
                THEN (IF j = 1 THEN 0 ELSE prev[j - 1]) + 1
                ELSE Max(prev[j], IF j = 1 THEN 0 ELSE acc[j - 1])),
              LAMBDA row : LcsRow(a, b, i, prev, j + 1, row))

RECURSIVE LcsRows(_, _, _, _)
LcsRows(a, b, i, prev) ==
    IF i > Len(a) THEN prev
    ELSE With(LcsRow(a, b, i, prev, 1, << >>),
              LAMBDA row : LcsRows(a, b, i + 1, row))

LCS(a, b) ==
    IF Len(a) = 0 \/ Len(b) = 0 THEN 0
    ELSE LcsRows(a, b, 1, [ j \in 1..Len(b) |-> 0 ])[Len(b)]

\* fuzz.WRatio of the rapidfuzz library, in units of 0.001.  The library is
\* no part of the repository; the code relies on its scores being 0..100
\* (line 71).  It is modelled by the normalized Indel similarity
\* 100 * 2*LCS / (len1 + len2), which is what WRatio returns for two
\* one-word strings whose lengths differ by less than a factor of 1.5,
\* and 0 when either string is empty.
WRatio(q, t) ==
    IF Len(q) = 0 \/ Len(t) = 0 THEN 0
    ELSE (200000 * LCS(q, t)) \div (Len(q) + Len(t))

\* SongIndex.score, in units of 0.00001: 0.55, 0.4 and 0.05 of the field scores
score(self, q, idx) ==
    With(self.norms[idx], LAMBDA n :
        55 * (IF Len(n.title_n) > 0 THEN WRatio(q, n.title_n) ELSE 0)
      + 40 * (IF Len(n.artist_n) > 0 THEN WRatio(q, n.artist_n) ELSE 0)
      + 5  * (IF Len(n.album_n) > 0 THEN WRatio(q, n.album_n) ELSE 0))

\* round(s, 2): from units of 0.00001 to units of 0.01, half to even
Round2(s) ==
    IF s % 1000 > 500 THEN (s \div 1000) + 1
    ELSE IF s % 1000 = 500 THEN (s \div 1000) + ((s \div 1000) % 2)
    ELSE s \div 1000

\* ------------------------------------------------------------------------
\* Candidate filter
\* ------------------------------------------------------------------------
\* the loop body without the bpm_range check
passes_no_range(n, phrase, filters) ==
    /\ (phrase.set /\ Len(phrase.v) > 0)
          => (Contains(n.title_n, phrase.v) \/ Contains(n.artist_n, phrase.v))
    /\ filters.artist.set => Contains(n.artist_n, filters.artist.v)
    /\ filters.title.set => Contains(n.title_n, filters.title.v)
    /\ filters.album.set => Contains(n.album_n, filters.album.v)
    /\ filters.key.set =>
          With(compact_key(filters.key.v), LAMBDA keyq : Contains(n.key_n, keyq))
    /\ filters.bpm.set => filters.bpm.v = n.bpm_n

\* the body of the loop of filter_candidates for one normalized record
passes(n, phrase, filters) ==
    /\ (phrase.set /\ Len(phrase.v) > 0)
          => (Contains(n.title_n, phrase.v) \/ Contains(n.artist_n, phrase.v))
    /\ filters.artist.set => Contains(n.artist_n, filters.artist.v)
    /\ filters.title.set => Contains(n.title_n, filters.title.v)
    /\ filters.album.set => Contains(n.album_n, filters.album.v)
    /\ filters.key.set =>
          With(compact_key(filters.key.v), LAMBDA keyq : Contains(n.key_n, keyq))
    /\ filters.bpm.set => filters.bpm.v = n.bpm_n
    /\ filters.bpm_range.set =>
          With(to_int(StrVal(n.bpm_n)), LAMBDA bpm_i :
              /\ bpm_i.ok
              /\ bpm_i.n >= filters.bpm_range.lo
              /\ bpm_i.n <= filters.bpm_range.hi)

\* the positions of the records that pass, ascending
filter_candidates(self, phrase, filters) ==
    SelectSeq([ i \in 1..Len(self.norms) |-> i ],
              LAMBDA i : passes(self.norms[i], phrase, filters))

\* ------------------------------------------------------------------------
\* Search
\* ------------------------------------------------------------------------
\* an ascending sort read backwards: descending by s, equal scores in
\* reversed order
SortDesc_reversed_ties(s0) ==
    With(s0, LAMBDA s :
        LET before(j, k) == s[j].s > s[k].s \/ (s[j].s = s[k].s /\ j > k)
            rank(k) == 1 + Cardinality({ j \in 1..Len(s) : before(j, k) })
        IN  [ r \in 1..Len(s) |-> s[CHOOSE k \in 1..Len(s) : rank(k) = r] ])

\* list.sort(key, reverse=True) on entries [i, s]: descending by s, equal
\* scores keep their order
SortDesc(s0) ==
    With(s0, LAMBDA s :
        LET before(j, k) == s[j].s > s[k].s \/ (s[j].s = s[k].s /\ j < k)
            rank(k) == 1 + Cardinality({ j \in 1..Len(s) : before(j, k) })
        IN  [ r \in 1..Len(s) |-> s[CHOOSE k \in 1..Len(s) : rank(k) = r] ])

ShortlistFloor == 100

\* process.extract(q, choices, scorer=fuzz.WRatio, limit=n): the positions of
\* the n best choices, best first, equal scores in ascending position
extract(q, choices, n) ==
    With(Prefix(SortDesc([ i \in 1..Len(choices) |->
                             [i |-> i, s |-> WRatio(q, choices[i])] ]), n),
         LAMBDA best : [ r \in 1..Len(best) |-> best[r].i ])

\* the text a candidate is scored against: q_free or self.norms[i]["title_n"]
score_query(self, pq, i) ==
    IF Len(pq.q_free) > 0 THEN pq.q_free ELSE self.norms[i].title_n

\* steps 1 and 2 of SongIndex.search: the shortlist (or every position), with
\* the positions filter_candidates rejects taken out, order kept
cand_idx(self, pq, limit) ==
    With(IF Len(pq.q_free) > 0
         THEN extract(pq.q_free, self.search_texts, Max(ShortlistFloor, limit * 10))
         ELSE [ i \in 1..Len(self.items) |-> i ], LAMBDA cand0 :
    With(Range(filter_candidates(self, pq.phrase, pq.filters)), LAMBDA okset :
        SelectSeq(cand0, LAMBDA i : i \in okset)))

\* step 3 of SongIndex.search: the candidates at or above the threshold with
\* their weighted scores, sorted
scored(self, pq, limit, threshold) ==
    With(cand_idx(self, pq, limit), LAMBDA cand :
    With([ r \in 1..Len(cand) |->
            [i |-> cand[r], s |-> score(self, score_query(self, pq, cand[r]), cand[r])] ],
         LAMBDA all :
        SortDesc(SelectSeq(all, LAMBDA e : e.s >= threshold))))

\* SongIndex.search: the list of (Song, score) it returns
search(self, query, limit, threshold) ==
    With(parse_query(query), LAMBDA pq :
    With(Prefix(scored(self, pq, limit, threshold), limit), LAMBDA top :
        [ r \in 1..Len(top) |->
            [song |-> self.items[top[r].i], score |-> Round2(top[r].s)] ]))

\* ------------------------------------------------------------------------
\* Persistence.  The JSON text is a sequence of tokens: the key of a top-level
\* member, "[" and "]" of its array, and one token for every member of a
\* dict (its key with its value, a JSON string or a JSON number).
\* ------------------------------------------------------------------------
KeyTok(name) ==
    [t |-> "key", key |-> name, s |-> << >>, n |-> 0]

OpenTok ==
    [t |-> "[", key |-> "", s |-> << >>, n |-> 0]

CloseTok ==
    [t |-> "]", key |-> "", s |-> << >>, n |-> 0]

\* every value dumped as a JSON string (json.dumps(..., default=str) style)
ValTok_all_str(name, v) ==
    [t |-> "str", key |-> name, s |-> PyStr(v), n |-> 0]

\* a value under its key: ints become JSON numbers, strs JSON strings
ValTok(name, v) ==
    IF v.k = "int" THEN [t |-> "num", key |-> name, s |-> << >>, n |-> v.n]
    ELSE [t |-> "str", key |-> name, s |-> v.s, n |-> 0]

\* the value a token is loaded as
TokVal(tok) ==
    IF tok.t = "num" THEN IntVal(tok.n) ELSE StrVal(tok.s)

RECURSIVE ConcatFrom(_, _)
ConcatFrom(ss, i) ==
    IF i > Len(ss) THEN << >> ELSE ss[i] \o ConcatFrom(ss, i + 1)

Concat(ss0) ==
    With(ss0, LAMBDA ss : ConcatFrom(ss, 1))

SongKeys ==
    <<"title", "artist", "album", "key", "bpm", "path">>

NormKeys ==
    <<"title_n", "artist_n", "album_n", "key_n", "bpm_n", "path_n">>

\* dataclasses.asdict(song), dumped
DumpSong(x) ==
    <<ValTok("title", StrVal(x.title)), ValTok("artist", StrVal(x.artist)),
      ValTok("album", StrVal(x.album)), ValTok("key", StrVal(x.key)),
      ValTok("bpm", x.bpm), ValTok("path", StrVal(x.path))>>

DumpNorm(n) ==
    <<ValTok("title_n", StrVal(n.title_n)), ValTok("artist_n", StrVal(n.artist_n)),
      ValTok("album_n", StrVal(n.album_n)), ValTok("key_n", StrVal(n.key_n)),
      ValTok("bpm_n", StrVal(n.bpm_n)), ValTok("path_n", StrVal(n.path_n))>>

\* jdumps of the payload of to_bytes
jdumps(payload) ==
    <<KeyTok("items"), OpenTok>>
      \o Concat([ i \in 1..Len(payload.items) |-> DumpSong(payload.items[i]) ])
      \o <<CloseTok, KeyTok("norms"), OpenTok>>
      \o Concat([ i \in 1..Len(payload.norms) |-> DumpNorm(payload.norms[i]) ])
      \o <<CloseTok, KeyTok("search_texts"), OpenTok>>
      \o [ i \in 1..Len(payload.search_texts) |->
             ValTok("", StrVal(payload.search_texts[i])) ]
      \o <<CloseTok>>

to_bytes(self) ==
    jdumps([items |-> self.items, norms |-> self.norms,
            search_texts |-> self.search_texts])

\* the positions of the tokens of kind t, ascending
TokensAt(b, t) ==
    SelectSeq([ i \in 1..Len(b) |-> i ], LAMBDA i : b[i].t = t)

\* a run of dicts with the given keys
IsDicts(body, keys) ==
    /\ Len(body) % 6 = 0
    /\ \A i \in 1..Len(body) :
          /\ body[i].t \in {"str", "num"}
          /\ body[i].key = keys[((i - 1) % 6) + 1]

\* what jloads accepts and from_bytes can use: three members items, norms,
\* search_texts, each an array; the first two of dicts with the six keys
Loadable(b) ==
    With(TokensAt(b, "["), LAMBDA o :
    With(TokensAt(b, "]"), LAMBDA c :
    With(TokensAt(b, "key"), LAMBDA k :
        /\ Len(o) = 3 /\ Len(c) = 3 /\ Len(k) = 3
        /\ k[1] = 1
        /\ \A i \in 1..3 : o[i] = k[i] + 1 /\ o[i] < c[i]
        /\ \A i \in 1..2 : k[i + 1] = c[i] + 1
        /\ c[3] = Len(b)
        /\ b[k[1]].key = "items" /\ b[k[2]].key = "norms"
        /\ b[k[3]].key = "search_texts"
        /\ IsDicts(Slice(b, o[1] + 1, c[1]), SongKeys)
        /\ IsDicts(Slice(b, o[2] + 1, c[2]), NormKeys)
        /\ \A i \in (o[3] + 1)..(c[3] - 1) : b[i].t = "str")))

\* the tokens of the k-th array
ArrayBody(b, k) ==
    Slice(b, TokensAt(b, "[")[k] + 1, TokensAt(b, "]")[k])

\* the value of the member `name` in the j-th dict of an array body
Member(body, j, name) ==
    TokVal(body[CHOOSE i \in (6 * (j - 1) + 1)..(6 * j) : body[i].key = name])

\* jloads
jloads(b) ==
    With(ArrayBody(b, 1), LAMBDA ib :
    With(ArrayBody(b, 2), LAMBDA nb :
    With(ArrayBody(b, 3), LAMBDA tb :
        [items |-> [ j \in 1..(Len(ib) \div 6) |->
                       [title  |-> Member(ib, j, "title"),
                        artist |-> Member(ib, j, "artist"),
                        album  |-> Member(ib, j, "album"),
                        key    |-> Member(ib, j, "key"),
                        bpm    |-> Member(ib, j, "bpm"),
                        path   |-> Member(ib, j, "path")] ],
         norms |-> [ j \in 1..(Len(nb) \div 6) |->
                       [title_n  |-> Member(nb, j, "title_n").s,
                        artist_n |-> Member(nb, j, "artist_n").s,
                        album_n  |-> Member(nb, j, "album_n").s,
                        key_n    |-> Member(nb, j, "key_n").s,
                        bpm_n    |-> Member(nb, j, "bpm_n").s,
                        path_n   |-> Member(nb, j, "path_n").s] ],
         search_texts |-> [ j \in 1..Len(tb) |-> tb[j].s ]])))

\* SongIndex.from_bytes: Song(**d) for every dict and SongIndex(items), whose
\* norms and search_texts the two assignments that follow replace by the
\* stored ones
from_bytes(b) ==
    With(jloads(b), LAMBDA p :
        [items |-> [ j \in 1..Len(p.items) |->
                       Song(PyStr(p.items[j].title), PyStr(p.items[j].artist),
                            PyStr(p.items[j].album), PyStr(p.items[j].key),
                            p.items[j].bpm, PyStr(p.items[j].path)) ],
         norms |-> p.norms,
         search_texts |-> p.search_texts])

\* ------------------------------------------------------------------------
\* State
\* ------------------------------------------------------------------------
VARIABLES
    file,     \* the index file: [exists, bytes]
    idx,      \* the SongIndex object most recently built or loaded: [live, obj]
    out,      \* what the last call returned or raised
    call,     \* the last call and the arguments SongIndex.search received
    opened,   \* whether the last call tried to open the index file for reading
    pc,       \* "idle" between calls, "returned" when a call has finished
    kin,      \* key normalization: the input string
    kprev,    \* key normalization: the value before the last application
    kcur,     \* key normalization: the current value
    kn,       \* key normalization: the number of applications so far
    qin,      \* query parsing: the tokens the query is made of
    qout,     \* query parsing: what parse_query returned
    qdone,    \* query parsing: whether parse_query has run
    bin,      \* bpm derivation: the record's bpm and the bounds of a range
    bout,     \* bpm derivation: bpm_n and what the two bpm filters said
    bdone     \* bpm derivation: whether the record has been normalized

vars ==
    <<file, idx, out, call, opened, pc, kin, kprev, kcur, kn, qin, qout, qdone,
      bin, bout, bdone>>

indexVars ==
    <<file, idx, out, call, opened, pc>>

keyVars ==
    <<kin, kprev, kcur, kn>>

parseVars ==
    <<qin, qout, qdone>>

bpmVars ==
    <<bin, bout, bdone>>

\* ------------------------------------------------------------------------
\* Bounds and inputs
\* ------------------------------------------------------------------------
MaxSongs == 2

SongA ==
    Song(<<"A","b","c">>, <<"b">>, << >>, <<"C","#"," ","m","i","n","o","r">>,
         IntVal(2), <<"p">>)

SongB ==
    Song(<<"a","x","y">>, << >>, << >>, <<"A"," ","M","a","j","o","r">>,
         StrVal(<<" ","1","2">>), << >>)

SongC ==
    Song(<<"a","b","c">>, <<"b","!","c">>, <<"z">>, << >>,
         IntVal(0), << >>)

SongD ==
    Song(<<"A","B","C">>, <<"B">>, << >>, <<"a"," ","m","i","n","o","r">>,
         StrVal(<<"x">>), <<"q">>)

SongPool ==
    {SongA, SongB, SongC, SongD}

\* the record arrays a catalog file can hold
Catalogs ==
    UNION { [1..n -> SongPool] : n \in 0..MaxSongs }

Queries ==
    { << >>,
      <<" "," ">>,
      <<"a","b","c">>,
      <<" ","a","b","c"," ">>,
      <<"a","r","t","i","s","t",":","b">>,
      <<"b","p","m",":","1",".",".","3"," ","'","b","c","'">>,
      <<"k","e","y",":","A"," ","m","i","n","o","r">>,
      <<"b","p","m",":","1","2">>,
      <<"a","r","t","i","s","t",":","b"," ","a","b","c">>,
      <<"a","b","c"," ","a","r","t","i","s","t",":","b">>,
      <<"'","a","b","'"," ","a","x","y">> }

\* limits: -1 is a limit the command line accepts and the helper raises to 1
Limits ==
    {-1, 1, 2}

\* the limit argument of search_index: an int, or a value int() rejects
LimitArgs ==
    { IntVal(n) : n \in Limits } \cup { StrVal(<<"x">>) }

\* thresholds in units of 0.00001: 0.0, 18.332 and the default 60.0
Thresholds ==
    {0, 1833200, 6000000}

\* ------------------------------------------------------------------------
\* Outcomes
\* ------------------------------------------------------------------------
NoIndex ==
    [live |-> FALSE, obj |-> SongIndex(<< >>)]

NoOut ==
    [kind |-> "none", exc |-> "", msg |-> "", path |-> FALSE, hint |-> FALSE,
     results |-> << >>, dicts |-> << >>]

NoCall ==
    [op |-> "none", query |-> << >>, limit |-> 0, threshold |-> 0,
     searched |-> FALSE, missing |-> FALSE]

Built ==
    [NoOut EXCEPT !.kind = "built"]

\* a list of (Song, score)
Returned(results) ==
    [NoOut EXCEPT !.kind = "list", !.results = results]

\* a list of dicts (as_dict=True)
ReturnedDicts(results) ==
    [NoOut EXCEPT !.kind = "dicts",
                  !.dicts = [ r \in 1..Len(results) |->
                      [score  |-> results[r].score,
                       title  |-> results[r].song.title,
                       artist |-> results[r].song.artist,
                       album  |-> results[r].song.album,
                       key    |-> results[r].song.key,
                       bpm    |-> results[r].song.bpm,
                       path   |-> results[r].song.path] ]]

Raised(exc, msg, path, hint) ==
    [NoOut EXCEPT !.kind = "raise", !.exc = exc, !.msg = msg,
                  !.path = path, !.hint = hint]

\* what parse_query returns for the empty query
NoParse ==
    [q_free |-> << >>, phrase |-> Unset,
     filters |-> [title |-> Unset, artist |-> Unset, album |-> Unset,
                  key |-> Unset, bpm |-> Unset,
                  bpm_range |-> [set |-> FALSE, lo |-> 0, hi |-> 0]]]

\* no record given yet, nothing derived yet
NoBpmIn ==
    [bpm |-> StrVal(<< >>), lo |-> 0, hi |-> 0]

NoBpmOut ==
    [bpm_n |-> << >>, exact |-> FALSE, ranged |-> FALSE]

Init ==
    /\ file = [exists |-> FALSE, bytes |-> << >>]
    /\ idx = NoIndex
    /\ out = NoOut
    /\ call = NoCall
    /\ opened = FALSE
    /\ pc = "idle"
    /\ kin = << >> /\ kprev = << >> /\ kcur = << >> /\ kn = 0
    /\ qin = << >> /\ qout = NoParse /\ qdone = FALSE
    /\ bin = NoBpmIn /\ bout = NoBpmOut /\ bdone = FALSE

\* ------------------------------------------------------------------------
\* Operations
\* ------------------------------------------------------------------------
\* the guard without the strip: only the empty query is blank
is_blank_empty_only(query) ==
    Len(query) = 0

\* not isinstance(query, str) or not query.strip(); a query is a str here
is_blank(query) ==
    Len(Strip(query)) = 0

\* a missing index swallowed: `except FileNotFoundError: return []`
index_not_found_empty ==
    Returned(<< >>)

\* raise FileNotFoundError(f"Index not found: {index_path}. Build it with: ...")
index_not_found ==
    Raised("FileNotFoundError", "Index not found", TRUE, TRUE)

\* cmd_build: the songs of the catalog, indexed and written to the file
cmd_build(arr) ==
    /\ pc = "idle"
    /\ \E built \in {SongIndex(load_songs(arr))} :
          /\ idx' = [live |-> TRUE, obj |-> built]
          /\ file' = [exists |-> TRUE, bytes |-> to_bytes(built)]
    /\ out' = Built
    /\ call' = [NoCall EXCEPT !.op = "cmd_build"]
    /\ opened' = FALSE
    /\ pc' = "returned"
    /\ UNCHANGED <<keyVars, parseVars, bpmVars>>

\* cmd_search: open and load the index, search, print the results
cmd_search(query, limit, threshold) ==
    /\ pc = "idle"
    /\ opened' = TRUE
    /\ pc' = "returned"
    /\ IF ~ file.exists
       THEN \* open() raises: [Errno 2] No such file or directory: '<path>'
            /\ out' = Raised("FileNotFoundError", "No such file or directory",
                             TRUE, FALSE)
            /\ call' = [NoCall EXCEPT !.op = "cmd_search", !.query = query,
                                      !.missing = TRUE]
            /\ idx' = idx
       ELSE IF ~ Loadable(file.bytes)
       THEN \* jloads or from_bytes raises; nothing catches it
            /\ out' = Raised("JSONDecodeError", "", FALSE, FALSE)
            /\ call' = [NoCall EXCEPT !.op = "cmd_search", !.query = query]
            /\ idx' = idx
       ELSE \E loaded \in {from_bytes(file.bytes)} :
            /\ idx' = [live |-> TRUE, obj |-> loaded]
            /\ out' = Returned(search(loaded, query, limit, threshold))
            /\ call' = [op |-> "cmd_search", query |-> query, limit |-> limit,
                        threshold |-> threshold, searched |-> TRUE,
                        missing |-> FALSE]
    /\ UNCHANGED <<file, keyVars, parseVars, bpmVars>>

\* search_index: the convenience helper
search_index(query, limit, threshold, as_dict) ==
    /\ pc = "idle"
    /\ pc' = "returned"
    /\ IF is_blank(query)
       THEN \* return []
            /\ out' = Returned(<< >>)
            /\ call' = [NoCall EXCEPT !.op = "search_index", !.query = query,
                                      !.missing = ~ file.exists]
            /\ opened' = FALSE
            /\ idx' = idx
       ELSE
         /\ opened' = TRUE
         /\ IF ~ file.exists
            THEN /\ out' = index_not_found
                 /\ call' = [NoCall EXCEPT !.op = "search_index", !.query = query,
                                           !.missing = TRUE]
                 /\ idx' = idx
            ELSE IF ~ Loadable(file.bytes)
            THEN /\ out' = Raised("RuntimeError", "Failed to load index", TRUE, FALSE)
                 /\ call' = [NoCall EXCEPT !.op = "search_index", !.query = query]
                 /\ idx' = idx
            ELSE \E loaded \in {from_bytes(file.bytes)} :
              /\ idx' = [live |-> TRUE, obj |-> loaded]
              /\ IF ~ to_int(limit).ok
                 THEN \* int(limit) raises inside the try block
                      /\ out' = Raised("RuntimeError", "Search failed", FALSE, FALSE)
                      /\ call' = [NoCall EXCEPT !.op = "search_index",
                                                !.query = query]
                 ELSE \E lim \in {Max(1, to_int(limit).n)} :
                      \E results \in {search(loaded, Strip(query), lim, threshold)} :
                        /\ call' = [op |-> "search_index", query |-> Strip(query),
                                    limit |-> lim, threshold |-> threshold,
                                    searched |-> TRUE, missing |-> FALSE]
                        /\ out' = IF Len(results) = 0 THEN Returned(<< >>)
                                  ELSE IF ~ as_dict THEN Returned(results)
                                  ELSE ReturnedDicts(results)
    /\ UNCHANGED <<file, keyVars, parseVars, bpmVars>>

\* a search that sorts the index in place: the records end up reversed
SongIndex_search_reordering(query, limit, threshold) ==
    /\ pc = "idle"
    /\ idx.live
    /\ out' = Returned(search(idx.obj, query, limit, threshold))
    /\ call' = [op |-> "search", query |-> query, limit |-> limit,
                threshold |-> threshold, searched |-> TRUE, missing |-> FALSE]
    /\ opened' = FALSE
    /\ pc' = "returned"
    /\ idx' = [idx EXCEPT
                 !.obj.items = [ i \in 1..Len(idx.obj.items) |->
                                   idx.obj.items[Len(idx.obj.items) + 1 - i] ]]
    /\ UNCHANGED <<file, keyVars, parseVars, bpmVars>>

\* SongIndex.search called on the index object the program holds
SongIndex_search(query, limit, threshold) ==
    /\ pc = "idle"
    /\ idx.live
    /\ out' = Returned(search(idx.obj, query, limit, threshold))
    /\ call' = [op |-> "search", query |-> query, limit |-> limit,
                threshold |-> threshold, searched |-> TRUE, missing |-> FALSE]
    /\ opened' = FALSE
    /\ pc' = "returned"
    /\ UNCHANGED <<idx, file, keyVars, parseVars, bpmVars>>

\* the index file is deleted between two calls
RemoveIndexFile ==
    /\ pc = "idle"
    /\ file.exists
    /\ file' = [exists |-> FALSE, bytes |-> << >>]
    /\ UNCHANGED <<idx, out, call, opened, pc, keyVars, parseVars, bpmVars>>

\* the index file is cut short between two calls
TruncateIndexFile ==
    /\ pc = "idle"
    /\ file.exists
    /\ Loadable(file.bytes)
    /\ file' = [file EXCEPT !.bytes = SubSeq(file.bytes, 1, Len(file.bytes) - 1)]
    /\ UNCHANGED <<idx, out, call, opened, pc, keyVars, parseVars, bpmVars>>

\* the caller takes the result; the program is ready for the next call
Return ==
    /\ pc = "returned"
    /\ pc' = "idle"
    /\ out' = NoOut
    /\ call' = NoCall
    /\ opened' = FALSE
    /\ UNCHANGED <<file, idx, keyVars, parseVars, bpmVars>>

Next ==
    \/ \E arr \in Catalogs : cmd_build(arr)
    \/ \E q \in Queries, l \in Limits, t \in Thresholds : cmd_search(q, l, t)
    \/ \E q \in Queries, l \in Limits, t \in Thresholds : SongIndex_search(q, l, t)
    \/ \E q \in Queries, l \in LimitArgs, t \in Thresholds, d \in BOOLEAN :
          search_index(q, l, t, d)
    \/ RemoveIndexFile
    \/ TruncateIndexFile
    \/ Return

Spec ==
    Init /\ [][Next]_vars

\* ------------------------------------------------------------------------
\* Key normalization on its own: normalize_key applied twice to an input
\* ------------------------------------------------------------------------
MaxKeyFrags == 4

KeyFrags ==
    { <<"c">>, <<" ","m","a">>, MAJOR, <<"j","o","r">>, MINOR, <<"A","!">> }

KeyInputs ==
    { Concat(fs) : fs \in UNION { [1..n -> KeyFrags] : n \in 0..MaxKeyFrags } }

InitKey ==
    /\ file = [exists |-> FALSE, bytes |-> << >>]
    /\ idx = NoIndex
    /\ out = NoOut
    /\ call = NoCall
    /\ opened = FALSE
    /\ pc = "idle"
    /\ kin \in KeyInputs /\ kprev = kin /\ kcur = kin /\ kn = 0
    /\ qin = << >> /\ qout = NoParse /\ qdone = FALSE
    /\ bin = NoBpmIn /\ bout = NoBpmOut /\ bdone = FALSE

ApplyKey ==
    /\ kn < 2
    /\ kprev' = kcur
    /\ kcur' = normalize_key(kcur)
    /\ kn' = kn + 1
    /\ UNCHANGED <<kin, indexVars, parseVars, bpmVars>>

NextKey ==
    ApplyKey

SpecKey ==
    InitKey /\ [][NextKey]_vars

\* ------------------------------------------------------------------------
\* Query parsing on its own: parse_query applied to a query made of tokens
\* separated by one space.  A token is a word, or <field>:<word>.
\* ------------------------------------------------------------------------
MaxToks == 3

Word(w) ==
    [f |-> "", w |-> w]

Bare(f, w) ==
    [f |-> f, w |-> w]

TokenPool ==
    { Word(<<"t","a","k","e">>),
      Word(<<"M","e">>),
      Bare("artist", <<"a","-","h","a">>),
      Bare("key", <<"C","#">>),
      Bare("bpm", <<"1","2">>),
      Bare("title", <<"o","n">>) }

FieldWord(f) ==
    FieldWords[CHOOSE i \in 1..5 : FieldNames[i] = f]

TokText(t) ==
    IF t.f = "" THEN t.w ELSE FieldWord(t.f) \o <<":">> \o t.w

RECURSIVE JoinFrom(_, _)
JoinFrom(toks, i) ==
    IF i > Len(toks) THEN << >>
    ELSE IF i = Len(toks) THEN TokText(toks[i])
    ELSE TokText(toks[i]) \o <<" ">> \o JoinFrom(toks, i + 1)

QueryText(toks) ==
    JoinFrom(toks, 1)

InitParse ==
    /\ file = [exists |-> FALSE, bytes |-> << >>]
    /\ idx = NoIndex
    /\ out = NoOut
    /\ call = NoCall
    /\ opened = FALSE
    /\ pc = "idle"
    /\ kin = << >> /\ kprev = << >> /\ kcur = << >> /\ kn = 0
    /\ qin \in UNION { [1..n -> TokenPool] : n \in 0..MaxToks }
    /\ qout = NoParse
    /\ qdone = FALSE
    /\ bin = NoBpmIn /\ bout = NoBpmOut /\ bdone = FALSE

RunParse ==
    /\ ~ qdone
    /\ qout' = parse_query(QueryText(qin))
    /\ qdone' = TRUE
    /\ UNCHANGED <<qin, indexVars, keyVars, bpmVars>>

NextParse ==
    RunParse

SpecParse ==
    InitParse /\ [][NextParse]_vars

\* ------------------------------------------------------------------------
\* The bpm of one record on its own: the record is normalized, indexed, and
\* asked for with the exact filter bpm:<n> and the range filter bpm:<lo>..<hi>
\* ------------------------------------------------------------------------
MaxBpm == 3

\* the values bpm can hold: ints, and strs that int() takes or rejects
BpmValues ==
    { IntVal(n) : n \in -1..MaxBpm }
      \cup { StrVal(s) : s \in { << >>, <<"0">>, <<"x">>, <<" ","1","2">>,
                                 <<"+","2">>, <<"0","0","3">>, <<"1","_","0">>,
                                 <<"2",".","0">> } }

BPM_COLON == <<"b","p","m",":">>

\* the queries bpm:<n> and bpm:<lo>..<hi>
ExactQuery(n) ==
    BPM_COLON \o IntToStr(n)

RangeQuery(lo, hi) ==
    BPM_COLON \o IntToStr(lo) \o DOTDOT \o IntToStr(hi)

\* whether the one record of the index passes the filters of the query
Admits(self, query) ==
    With(parse_query(query), LAMBDA pq :
        Len(filter_candidates(self, pq.phrase, pq.filters)) > 0)

InitBpm ==
    /\ file = [exists |-> FALSE, bytes |-> << >>]
    /\ idx = NoIndex
    /\ out = NoOut
    /\ call = NoCall
    /\ opened = FALSE
    /\ pc = "idle"
    /\ kin = << >> /\ kprev = << >> /\ kcur = << >> /\ kn = 0
    /\ qin = << >> /\ qout = NoParse /\ qdone = FALSE
    /\ bin \in [bpm : BpmValues, lo : 0..MaxBpm, hi : 0..MaxBpm]
    /\ bout = NoBpmOut
    /\ bdone = FALSE

\* SongIndex([Song(title="t", bpm=...)]), then the two filters on it
DeriveBpm ==
    /\ ~ bdone
    /\ \E self \in {SongIndex(<<Song(<<"t">>, << >>, << >>, << >>, bin.bpm, << >>)>>)} :
          bout' = [bpm_n  |-> self.norms[1].bpm_n,
                   exact  |-> IF to_int(bin.bpm).ok
                              THEN Admits(self, ExactQuery(to_int(bin.bpm).n))
                              ELSE FALSE,
                   ranged |-> Admits(self, RangeQuery(bin.lo, bin.hi))]
    /\ bdone' = TRUE
    /\ UNCHANGED <<bin, indexVars, keyVars, parseVars>>

NextBpm ==
    DeriveBpm

SpecBpm ==
    InitBpm /\ [][NextBpm]_vars

\* ------------------------------------------------------------------------
\* Properties
\* ------------------------------------------------------------------------
\* the songs and the scores of the last result, whichever form it has
ReturnedSongs ==
    IF out.kind = "dicts"
    THEN [ r \in 1..Len(out.dicts) |->
             Song(out.dicts[r].title, out.dicts[r].artist, out.dicts[r].album,
                  out.dicts[r].key, out.dicts[r].bpm, out.dicts[r].path) ]
    ELSE [ r \in 1..Len(out.results) |-> out.results[r].song ]

ReturnedScores ==
    IF out.kind = "dicts"
    THEN [ r \in 1..Len(out.dicts) |-> out.dicts[r].score ]
    ELSE [ r \in 1..Len(out.results) |-> out.results[r].score ]

Aligned(o) ==
    /\ Len(o.norms) = Len(o.items)
    /\ Len(o.search_texts) = Len(o.items)
    /\ \A i \in 1..Len(o.items) :
          /\ o.norms[i] = normalized(o.items[i])
          /\ o.search_texts[i] =
                o.norms[i].title_n \o SEP \o o.norms[i].artist_n
                                   \o SEP \o o.norms[i].album_n

\* C1: the index object the program holds, built or loaded, and the index
\* that loading the file gives, have items, norms and search_texts of one
\* length, with norms[i] the normalized record of items[i] and
\* search_texts[i] the title_n, artist_n, album_n of norms[i] joined by " | ",
\* whatever builds, loads and searches came before.
C1_IndexAligned ==
    /\ idx.live => Aligned(idx.obj)
    /\ (file.exists /\ Loadable(file.bytes)) => Aligned(from_bytes(file.bytes))

\* an index of two records that was built, written, loaded and searched
C1_Witness ==
    /\ pc = "returned"
    /\ call.op = "cmd_search"
    /\ call.searched
    /\ Len(idx.obj.items) >= 2
    /\ Len(out.results) >= 1

\* C2: right after a build, loading the bytes that were written gives track
\* records, normalized records and coarse texts equal to those of the index
\* that was built, element by element and in the same order.
C2_RoundTrip ==
    (pc = "returned" /\ call.op = "cmd_build") =>
        /\ Loadable(file.bytes)
        /\ LET back == from_bytes(file.bytes)
           IN  /\ Len(back.items) = Len(idx.obj.items)
               /\ Len(back.norms) = Len(idx.obj.norms)
               /\ Len(back.search_texts) = Len(idx.obj.search_texts)
               /\ \A i \in 1..Len(idx.obj.items) :
                     /\ back.items[i] = idx.obj.items[i]
                     /\ back.norms[i] = idx.obj.norms[i]
                     /\ back.search_texts[i] = idx.obj.search_texts[i]

\* a built index with an int bpm and a str bpm among its records
C2_Witness ==
    /\ pc = "returned"
    /\ call.op = "cmd_build"
    /\ \E i, j \in 1..Len(idx.obj.items) :
          idx.obj.items[i].bpm.k = "int" /\ idx.obj.items[j].bpm.k = "str"

\* what parse_query extracted, required of one normalized record
MeetsQuery(n, pq) ==
    /\ pq.phrase.set =>
          (Contains(n.title_n, pq.phrase.v) \/ Contains(n.artist_n, pq.phrase.v))
    /\ pq.filters.title.set => Contains(n.title_n, pq.filters.title.v)
    /\ pq.filters.artist.set => Contains(n.artist_n, pq.filters.artist.v)
    /\ pq.filters.album.set => Contains(n.album_n, pq.filters.album.v)
    /\ pq.filters.key.set =>
          Contains(n.key_n,
                   Replace(Replace(pq.filters.key.v, MAJOR, << >>), MINOR, LETTER_M))
    /\ pq.filters.bpm.set => pq.filters.bpm.v = n.bpm_n
    /\ pq.filters.bpm_range.set =>
          /\ ParseInt(n.bpm_n).ok
          /\ ParseInt(n.bpm_n).n >= pq.filters.bpm_range.lo
          /\ ParseInt(n.bpm_n).n <= pq.filters.bpm_range.hi

\* C3: every record a search returns meets every constraint parse_query
\* extracted from the query (phrase, title, artist, album, key, bpm,
\* bpm_range), with free text and without.
C3_ResultsMeetQuery ==
    call.searched =>
        \A r \in 1..Len(ReturnedSongs) :
            MeetsQuery(normalized(ReturnedSongs[r]), parse_query(call.query))

\* a search with free text and an artist filter that returned a record while
\* the index holds a record the filter rejects
C3_Witness ==
    /\ call.searched
    /\ Len(ReturnedSongs) >= 1
    /\ Len(parse_query(call.query).q_free) > 0
    /\ parse_query(call.query).filters.artist.set
    /\ \E i \in 1..Len(idx.obj.norms) :
          ~ Contains(idx.obj.norms[i].artist_n,
                     parse_query(call.query).filters.artist.v)

\* C4: a search with a limit of at least 1 returns at most `limit` entries.
C4_AtMostLimit ==
    (call.searched /\ call.limit >= 1) => Len(ReturnedSongs) <= call.limit

\* a search cut to one entry where a limit of 2 gives two
C4_Witness ==
    /\ call.searched
    /\ call.limit = 1
    /\ Len(ReturnedSongs) = 1
    /\ Len(search(idx.obj, call.query, 2, call.threshold)) = 2

\* C5: every score a search returns, which is the weighted score rounded to
\* two decimals, is at least the threshold.
C5_ScoresAtLeastThreshold ==
    call.searched =>
        \A r \in 1..Len(ReturnedScores) : ReturnedScores[r] * 1000 >= call.threshold

\* C6: a call of search_index with an empty or whitespace-only query returns
\* the empty list, does not try to open the index file and loads nothing,
\* whether the file is there, missing or cut short.
C6_BlankQueryNoLoad ==
    [][(pc = "idle" /\ call'.op = "search_index" /\ Len(Strip(call'.query)) = 0)
          => (out' = Returned(<< >>) /\ ~ opened' /\ idx' = idx /\ file' = file)]_vars

\* a whitespace-only query given to search_index while the file is cut short
C6_Witness ==
    /\ pc = "returned"
    /\ call.op = "search_index"
    /\ Len(call.query) > 0
    /\ Len(Strip(call.query)) = 0
    /\ file.exists
    /\ ~ Loadable(file.bytes)

\* C7 as claimed: every search_index or cmd_search call made while the index
\* file is missing ends in the index-not-found condition with the path and
\* the rebuild hint.
C7_MissingAlwaysNotFound ==
    (pc = "returned" /\ call.op \in {"search_index", "cmd_search"} /\ call.missing)
        => (out.kind = "raise" /\ out.msg = "Index not found"
                               /\ out.path /\ out.hint)

\* C7 amended: while the index file is missing, search_index with a query
\* that is not blank raises the index-not-found condition with the path and
\* the rebuild hint; cmd_search raises the built-in file-not-found error,
\* with the path and without the hint; neither returns a list.  search_index
\* with a blank query returns the empty list.
C7_MissingByCase ==
    (pc = "returned" /\ call.missing) =>
        /\ (call.op = "search_index" /\ Len(Strip(call.query)) > 0) =>
              (out.kind = "raise" /\ out.exc = "FileNotFoundError"
                 /\ out.msg = "Index not found" /\ out.path /\ out.hint)
        /\ call.op = "cmd_search" =>
              (out.kind = "raise" /\ out.exc = "FileNotFoundError"
                 /\ out.msg = "No such file or directory"
                 /\ out.path /\ ~ out.hint)
        /\ (call.op = "search_index" /\ Len(Strip(call.query)) = 0) =>
              out = Returned(<< >>)

\* search_index called with a query that is not blank while the file is missing
C7_Witness ==
    /\ pc = "returned"
    /\ call.op = "search_index"
    /\ call.missing
    /\ Len(Strip(call.query)) > 0
    /\ out.kind = "raise"

\* C8: SongIndex.search leaves the index object and the file as they were,
\* and the same call on the index it leaves returns the same list; the
\* searches that load first (cmd_search, search_index, failing or not) leave
\* the file as it was and the index either as it was or as loaded.
C8_SearchLeavesIndex ==
    [][/\ (pc = "idle" /\ call'.op = "search") =>
             /\ idx' = idx
             /\ file' = file
             /\ out' = Returned(search(idx'.obj, call'.query, call'.limit,
                                       call'.threshold))
       /\ (pc = "idle" /\ call'.op \in {"cmd_search", "search_index"}) =>
             /\ file' = file
             /\ (idx' = idx \/ idx'.obj = from_bytes(file.bytes))
      ]_vars

\* a search on an index of two different records that returned something
C8_Witness ==
    /\ pc = "returned"
    /\ call.op = "search"
    /\ Len(idx.obj.items) >= 2
    /\ idx.obj.items[1] # idx.obj.items[2]
    /\ Len(out.results) >= 1

\* C9 as claimed: the key normalization applied to its own output gives that
\* output again, for every input.
C9_KeyIdempotent ==
    kn = 2 => kcur = kprev

\* C9 amended: the key normalization applied to its own output gives that
\* output again whenever the output contains no " major".
C9_KeyIdempotentWithoutMajor ==
    (kn = 2 /\ ~ Contains(kprev, MAJOR)) => kcur = kprev

\* an input with " major" and " minor" in it, normalized twice, whose
\* normalization changed it and left no " major"
C9_Witness ==
    /\ kn = 2
    /\ Contains(norm(kin), MAJOR)
    /\ Contains(norm(kin), MINOR)
    /\ ~ Contains(kprev, MAJOR)
    /\ kprev # kin

\* the filter a query of bare tokens should give for field f: the word of
\* the last token for f (normalized unless f is bpm), none without a token
ExpectedFilter(toks, f) ==
    LET at == { i \in 1..Len(toks) : toks[i].f = f }
        w == toks[CHOOSE i \in at : \A j \in at : j <= i].w
    IN  IF at = {} THEN Unset
        ELSE [set |-> TRUE, v |-> IF f = "bpm" THEN w ELSE norm(w)]

\* the free text a query of bare tokens should give: its plain words
ExpectedFree(toks) ==
    norm(QueryText(SelectSeq(toks, LAMBDA t : t.f = "")))

\* C10: in a query of whitespace-separated tokens, every <field>:<word>
\* token sets filters[field] to its word alone (normalized unless the field
\* is bpm), one filter per field, and the plain words stay in the free text.
C10_BareTokenExtent ==
    qdone =>
        /\ \A i \in 1..5 :
              qout.filters[FieldNames[i]] = ExpectedFilter(qin, FieldNames[i])
        /\ ~ qout.filters.bpm_range.set
        /\ qout.q_free = ExpectedFree(qin)

\* C11: bpm_n is the decimal string of n whenever the record's bpm parses
\* as the integer n, 0 included, and the empty string exactly when bpm does
\* not parse; a record whose bpm is the integer n passes the exact filter
\* bpm:n and every range bpm:lo..hi with lo <= n <= hi.
C11_BpmDerivation ==
    bdone =>
        LET t == to_int(bin.bpm)
        IN  /\ t.ok => bout.bpm_n = IntToStr(t.n)
            /\ (~ t.ok) <=> (bout.bpm_n = << >>)
            /\ (bin.bpm.k = "int") =>
                  /\ bout.exact
                  /\ (bin.lo <= bin.bpm.n /\ bin.bpm.n <= bin.hi) => bout.ranged

\* the position of i in the sequence c of distinct positions
PosIn(c, i) ==
    CHOOSE r \in 1..Len(c) : c[r] = i

\* C12: the candidates of a search are the records of the filtered shortlist
\* whose weighted score is at least the threshold.  The ranking lists each of
\* them once, in non-increasing order of weighted score, equal scores in the
\* order of the filtered shortlist (ascending position when the free text is
\* empty); the list returned is a leading part of the ranking, the first
\* `limit` entries (or all, if fewer) when limit >= 1, with scores that do not
\* increase, so no candidate left out scores strictly higher than one returned.
C12_RankedOrder ==
    call.searched =>
        LET self  == idx.obj
            pq    == parse_query(call.query)
            cand  == cand_idx(self, pq, call.limit)
            w(i)  == score(self, score_query(self, pq, i), i)
            R     == scored(self, pq, call.limit, call.threshold)
            kept  == Len(ReturnedSongs)
        IN  /\ { R[a].i : a \in 1..Len(R) } =
                  { i \in Range(cand) : w(i) >= call.threshold }
            /\ \A a \in 1..Len(R) : R[a].s = w(R[a].i)
            /\ \A a, b \in 1..Len(R) :
                  a < b =>
                     /\ R[a].s >= R[b].s
                     /\ R[a].s = R[b].s => PosIn(cand, R[a].i) < PosIn(cand, R[b].i)
            /\ (Len(pq.q_free) = 0) =>
                  \A a, b \in 1..Len(cand) : a < b => cand[a] < cand[b]
            /\ kept <= Len(R)
            /\ call.limit >= 1 => kept = Min(call.limit, Len(R))
            /\ \A r \in 1..kept :
                  /\ ReturnedSongs[r] = self.items[R[r].i]
                  /\ ReturnedScores[r] = Round2(R[r].s)
            /\ \A r \in 1..(kept - 1) : ReturnedScores[r] >= ReturnedScores[r + 1]
            /\ \A r \in 1..kept : \A a \in (kept + 1)..Len(R) : R[a].s <= R[r].s

\* a search with free text and limit 1 over two different records whose
\* weighted scores are equal: the one returned is the first of the shortlist
C12_Witness ==
    /\ call.searched
    /\ call.limit = 1
    /\ Len(parse_query(call.query).q_free) > 0
    /\ Len(ReturnedSongs) = 1
    /\ Len(idx.obj.items) = 2
    /\ idx.obj.items[1] # idx.obj.items[2]
    /\ Len(scored(idx.obj, parse_query(call.query), 1, call.threshold)) = 2
    /\ scored(idx.obj, parse_query(call.query), 1, call.threshold)[1].s
          = scored(idx.obj, parse_query(call.query), 1, call.threshold)[2].s

====
